---- MODULE Spec2Model ----
(***************************************************************************)
(* State-machine model of the Task entity of twilio-taskrouter.js          *)
(* (lib/Task.js, here src/unnamed/part_000) and of the route table         *)
(* (src/lib/util/Routes.js).                                               *)
(*                                                                         *)
(* JavaScript values.  A primitive is a record [type, val] whose val is    *)
(* always a string (numbers and booleans are written as their text).  An   *)
(* object that the code reads properties from (a server payload, an event  *)
(* payload, a transfer entity) is a record of its properties and carries   *)
(* no "type" field; a property the object lacks is a key the record lacks. *)
(***************************************************************************)
EXTENDS Integers, Sequences, FiniteSets, TLC

\* ------------------------------------------------------------------ bounds
\* Number of commands that may be awaiting their response at the same time.
MaxPending == 2
\* Number of positional arguments a caller may hand to getRoute.
MaxArgs == 3

\* ------------------------------------------------------- JavaScript values
Undefined == [type |-> "undefined", val |-> ""]
JsNull == [type |-> "null", val |-> ""]
Str(s) == [type |-> "string", val |-> s]
Num(s) == [type |-> "number", val |-> s]
Bool(s) == [type |-> "boolean", val |-> s]
Obj(s) == [type |-> "object", val |-> s]

IsPrimitiveOrTagged(v) == "type" \in DOMAIN v

\* lodash _.isString
IsString(v) == IsPrimitiveOrTagged(v) /\ v.type = "string"
\* lodash _.isBoolean
IsBoolean(v) == IsPrimitiveOrTagged(v) /\ v.type = "boolean"
\* lodash _.isObject: objects, arrays and functions; never null
IsObject(v) == IF IsPrimitiveOrTagged(v) THEN v.type \in {"object", "array", "function"} ELSE TRUE
\* JavaScript ToBoolean, as used by `if (x)` and `a || b` and `a && b`
Truthy(v) ==
    IF IsPrimitiveOrTagged(v)
    THEN ~ \/ v.type \in {"undefined", "null"}
           \/ (v.type = "string" /\ v.val = "")
           \/ (v.type = "number" /\ v.val \in {"0", "NaN"})
           \/ (v.type = "boolean" /\ v.val = "false")
    ELSE TRUE

\* ---------------------------------------------------------------- Constants
TASK_STATUS_COMPLETED == "completed"
TASK_STATUS_WRAPPING == "wrapping"
TRANSFER_INITIATED == "transfer-initiated"
API_V1 == "v1"
API_V2 == "v2"

\* util/Constants.taskTransferEventTypes: wire event type -> emitted event name
TransferEventKinds ==
    {"transfer-attempt-failed", "transfer-canceled", "transfer-completed",
     "transfer-failed", "transfer-initiated"}
taskTransferEventTypes ==
    [k \in TransferEventKinds |->
        CASE k = "transfer-attempt-failed" -> "transferAttemptFailed"
          [] k = "transfer-canceled" -> "transferCanceled"
          [] k = "transfer-completed" -> "transferCompleted"
          [] k = "transfer-failed" -> "transferFailed"
          [] k = "transfer-initiated" -> "transferInitiated"]

\* Task-level event types handed to the generic _emitEvent
TaskEventKinds == {"canceled", "completed", "wrapup", "updated"}

\* ------------------------------------------------------------ Task payloads
\* The properties a raw Task payload must carry (export TaskProperties).
TaskProperties ==
    {"addons", "age", "attributes", "date_created", "date_updated", "priority",
     "queue_name", "queue_sid", "reason", "routing_target", "sid",
     "assignment_status", "task_channel_unique_name", "task_channel_sid",
     "timeout", "workflow_name", "workflow_sid"}

\* A faulty list from which 'reason' was left out.
fieldsToUpdateWithoutReason ==
    <<"attributes", "status", "workflowSid", "workflowName", "queueSid",
      "queueName", "priority", "routingTarget", "timeout",
      "taskChannelSid", "taskChannelUniqueName", "age", "addOns",
      "dateUpdated", "transfers">>

\* A faulty list that also names 'sid'.
fieldsToUpdateWithSid ==
    <<"sid", "attributes", "status", "workflowSid", "workflowName", "queueSid",
      "queueName", "priority", "reason", "routingTarget", "timeout",
      "taskChannelSid", "taskChannelUniqueName", "age", "addOns",
      "dateUpdated", "transfers">>

\* The fields _update copies, in the order it copies them.
fieldsToUpdate ==
    <<"attributes", "status", "workflowSid", "workflowName", "queueSid",
      "queueName", "priority", "reason", "routingTarget", "timeout",
      "taskChannelSid", "taskChannelUniqueName", "age", "addOns",
      "dateUpdated", "transfers">>

\* JSON texts the server sends for attributes and addons; the last one is
\* not valid JSON.
JSONText(v) == IF v = 1 THEN "{\"k\":1}" ELSE IF v = 2 THEN "{\"k\":2}" ELSE "{\"k\":3}"
BadJSON == "{bad"
JSONParsable(s) == s # BadJSON
\* JSON.parse on the texts above
JSONParse(s) == [k |-> IF s = JSONText(1) THEN 1 ELSE IF s = JSONText(2) THEN 2 ELSE 3]

StatusName(v) == IF v = 1 THEN "assigned" ELSE IF v = 2 THEN "completed" ELSE "wrapping"
Suffix(v) == IF v = 1 THEN "1" ELSE IF v = 2 THEN "2" ELSE IF v = 3 THEN "3" ELSE "4"

\* A well-formed raw Task payload: every property other than the sid is in
\* its version v.
TaskPayload(sid, v) ==
    [sid |-> sid,
     assignment_status |-> StatusName(v),
     attributes |-> JSONText(v),
     addons |-> JSONText(v),
     age |-> 10 * v,
     date_created |-> 100,
     date_updated |-> 100 + v,
     priority |-> v - 1,
     queue_name |-> "Queue" \o Suffix(v),
     queue_sid |-> "WQ" \o Suffix(v),
     reason |-> "reason" \o Suffix(v),
     routing_target |-> "WK" \o Suffix(v),
     task_channel_unique_name |-> "channel" \o Suffix(v),
     task_channel_sid |-> "TC" \o Suffix(v),
     timeout |-> 3600 * v,
     workflow_name |-> "Workflow" \o Suffix(v),
     workflow_sid |-> "WW" \o Suffix(v)]

TaskSid == "WT1"
OtherTaskSid == "WT2"
ReservationSid == "WR1"
\* The versions of a payload the server sends
Versions == {1, 2}
LastVersion == CHOOSE v \in Versions : \A w \in Versions : w <= v

ValidTaskPayloads ==
    {TaskPayload(TaskSid, v) : v \in Versions} \cup {TaskPayload(OtherTaskSid, 1)}

\* Payloads the descriptor rejects: one lacks a required property, one
\* carries attributes that are no JSON.
WithoutAge(p) == [k \in (DOMAIN p) \ {"age"} |-> p[k]]
MalformedTaskPayloads ==
    {WithoutAge(TaskPayload(TaskSid, LastVersion)),
     [TaskPayload(TaskSid, LastVersion) EXCEPT !.attributes = BadJSON]}

TaskPayloads == ValidTaskPayloads \cup MalformedTaskPayloads

\* new TaskDescriptor(payload) throws
TaskDescriptorThrows(payload) ==
    \/ ~IsObject(payload)
    \/ ~(TaskProperties \subseteq DOMAIN payload)
    \/ ~JSONParsable(payload.addons)
    \/ ~JSONParsable(payload.attributes)

\* new TaskDescriptor(payload), for a payload it accepts
TaskDescriptor(payload) ==
    [addOns |-> JSONParse(payload.addons),
     age |-> payload.age,
     attributes |-> JSONParse(payload.attributes),
     dateCreated |-> payload.date_created * 1000,
     dateUpdated |-> payload.date_updated * 1000,
     priority |-> payload.priority,
     queueName |-> payload.queue_name,
     queueSid |-> payload.queue_sid,
     reason |-> payload.reason,
     routingTarget |-> payload.routing_target,
     sid |-> payload.sid,
     status |-> payload.assignment_status,
     taskChannelUniqueName |-> payload.task_channel_unique_name,
     taskChannelSid |-> payload.task_channel_sid,
     timeout |-> payload.timeout,
     workflowName |-> payload.workflow_name,
     workflowSid |-> payload.workflow_sid]

\* -------------------------------------------------------- Transfer payloads
TransferProperties == {"sid", "transfer_status", "transfer_mode", "transfer_to"}
TransferSids == {"TR1", "TR2"}
TransferStatusName(v) == IF v = 1 THEN "initiated" ELSE IF v = 2 THEN "completed" ELSE "failed"
TransferModeName(v) == IF v % 2 = 1 THEN "WARM" ELSE "COLD"

\* A well-formed raw transfer payload (a transfer() response, a transfer
\* event's data, a sub-payload of the transfers data given to _update).
TransferPayload(sid, v) ==
    [sid |-> sid,
     transfer_status |-> TransferStatusName(v),
     transfer_mode |-> TransferModeName(v),
     transfer_to |-> "WK" \o Suffix(v)]

TransferPayloads == {TransferPayload(sid, v) : sid \in TransferSids, v \in Versions}
WithoutMode(p) == [k \in (DOMAIN p) \ {"transfer_mode"} |-> p[k]]
MalformedTransferPayload == WithoutMode(TransferPayload("TR1", 1))
IncomingPayload == TransferPayload("TR9", 1)

\* new TransferDescriptor(payload) throws
TransferDescriptorThrows(payload) ==
    ~IsObject(payload) \/ ~(TransferProperties \subseteq DOMAIN payload)

\* The transfer entity built from a payload
TransferDescriptor(payload) ==
    [sid |-> payload.sid,
     status |-> payload.transfer_status,
     mode |-> payload.transfer_mode,
     to |-> payload.transfer_to]

\* ------------------------------------------------------------- TransferSet
\* new Transfers(worker, request, descriptor): both slots empty
NewTransfers == [incoming |-> JsNull, outgoing |-> JsNull]

\* Transfers._updateOutgoing(payload, isInitialTransferResult)
TransfersUpdateOutgoing(tr, payload, isInitialTransferResult) ==
    [tr EXCEPT !.outgoing = TransferDescriptor(payload)]

\* Transfers._emitEvent(eventType, rawEventData): the held outgoing transfer
\* takes the event's status and emits the event's name itself.
TransfersEmitEvent(tr, eventType, rawEventData) ==
    LET updated == [tr.outgoing EXCEPT !.status = rawEventData.transfer_status]
    IN  [transfers |-> [tr EXCEPT !.outgoing = updated],
         emitted |-> <<[emitter |-> "transfers.outgoing",
                        name |-> taskTransferEventTypes[eventType.val],
                        payload |-> updated]>>]

\* Transfers._update(latestTransfersData): each sub-payload that is present
\* replaces its slot, incoming first; a malformed sub-payload throws.
TransfersUpdate(tr, latestTransfersData) ==
    LET inc == latestTransfersData.incoming
        out == latestTransfersData.outgoing
    IN  IF Truthy(inc) /\ TransferDescriptorThrows(inc)
        THEN [transfers |-> tr, thrown |-> TRUE]
        ELSE LET tr1 == IF Truthy(inc)
                        THEN [tr EXCEPT !.incoming = TransferDescriptor(inc)]
                        ELSE tr
             IN  IF Truthy(out) /\ TransferDescriptorThrows(out)
                 THEN [transfers |-> tr1, thrown |-> TRUE]
                 ELSE [transfers |-> IF Truthy(out)
                                     THEN [tr1 EXCEPT !.outgoing = TransferDescriptor(out)]
                                     ELSE tr1,
                       thrown |-> FALSE]

\* -------------------------------------------------------------------- Task
\* The Task after its constructor: Object.assign(this, descriptor), then
\* reservationSid.
NewTask(descriptor, reservationSid) ==
    [sid |-> descriptor.sid,
     reservationSid |-> reservationSid,
     dateCreated |-> descriptor.dateCreated,
     attributes |-> descriptor.attributes,
     status |-> descriptor.status,
     workflowSid |-> descriptor.workflowSid,
     workflowName |-> descriptor.workflowName,
     queueSid |-> descriptor.queueSid,
     queueName |-> descriptor.queueName,
     priority |-> descriptor.priority,
     reason |-> descriptor.reason,
     routingTarget |-> descriptor.routingTarget,
     timeout |-> descriptor.timeout,
     taskChannelSid |-> descriptor.taskChannelSid,
     taskChannelUniqueName |-> descriptor.taskChannelUniqueName,
     age |-> descriptor.age,
     addOns |-> descriptor.addOns,
     dateUpdated |-> descriptor.dateUpdated]

NoError == [name |-> "none", sid |-> "none"]
TypeError == [name |-> "TypeError", sid |-> "none"]
PlainError == [name |-> "Error", sid |-> "none"]
\* new Error(`Failed to update Task sid=${latestTaskData.sid}. Update aborted. ...`)
UpdateError(latestTaskData) == [name |-> "Error", sid |-> latestTaskData.sid]

\* A faulty forEach that adds the descriptor's age to the Task's age instead
\* of replacing it.
RECURSIVE UpdateFieldsAddingAge(_, _, _, _, _)
UpdateFieldsAddingAge(this, tr, descriptor, latestTransfersData, i) ==
    IF i > Len(fieldsToUpdate)
    THEN [task |-> this, transfers |-> tr, thrown |-> FALSE]
    ELSE LET field == fieldsToUpdate[i] IN
         IF field = "transfers"
         THEN IF latestTransfersData = JsNull
              THEN [task |-> this, transfers |-> tr, thrown |-> TRUE]
              ELSE IF Truthy(latestTransfersData.incoming) \/ Truthy(latestTransfersData.outgoing)
                   THEN LET r == TransfersUpdate(tr, latestTransfersData) IN
                        [task |-> this, transfers |-> r.transfers, thrown |-> r.thrown]
                   ELSE [task |-> this, transfers |-> tr, thrown |-> FALSE]
         ELSE UpdateFieldsAddingAge(
                  [this EXCEPT ![field] = IF field = "age" THEN @ + descriptor[field]
                                                           ELSE descriptor[field]],
                  tr, descriptor, latestTransfersData, i + 1)

\* A faulty forEach without the special case for 'transfers': the slots are
\* overwritten from the descriptor, which has none.
RECURSIVE UpdateFieldsAssigningTransfers(_, _, _, _, _)
UpdateFieldsAssigningTransfers(this, tr, descriptor, latestTransfersData, i) ==
    IF i > Len(fieldsToUpdate)
    THEN [task |-> this, transfers |-> tr, thrown |-> FALSE]
    ELSE LET field == fieldsToUpdate[i] IN
         IF field = "transfers"
         THEN UpdateFieldsAssigningTransfers(this, NewTransfers, descriptor,
                                             latestTransfersData, i + 1)
         ELSE UpdateFieldsAssigningTransfers([this EXCEPT ![field] = descriptor[field]], tr,
                                             descriptor, latestTransfersData, i + 1)

\* The forEach of _update from the i-th name of fieldsToUpdate on; a throw
\* inside it leaves what the earlier iterations assigned.
RECURSIVE UpdateFields(_, _, _, _, _)
UpdateFields(this, tr, descriptor, latestTransfersData, i) ==
    IF i > Len(fieldsToUpdate)
    THEN [task |-> this, transfers |-> tr, thrown |-> FALSE]
    ELSE LET field == fieldsToUpdate[i] IN
         IF field = "transfers"
         THEN IF latestTransfersData = JsNull
              THEN \* reading .incoming of null is a TypeError
                   [task |-> this, transfers |-> tr, thrown |-> TRUE]
              ELSE IF Truthy(latestTransfersData.incoming) \/ Truthy(latestTransfersData.outgoing)
                   THEN LET r == TransfersUpdate(tr, latestTransfersData) IN
                        IF r.thrown
                        THEN [task |-> this, transfers |-> r.transfers, thrown |-> TRUE]
                        ELSE UpdateFields(this, r.transfers, descriptor, latestTransfersData, i + 1)
                   ELSE UpdateFields(this, tr, descriptor, latestTransfersData, i + 1)
         ELSE UpdateFields([this EXCEPT ![field] = descriptor[field]], tr,
                           descriptor, latestTransfersData, i + 1)

\* Task._update(latestTaskData, latestTransfersData): the Task, the
\* TransferSet and the error thrown, if any.
Update(this, tr, latestTaskData, latestTransfersData) ==
    IF TaskDescriptorThrows(latestTaskData)
    THEN [task |-> this, transfers |-> tr, thrown |-> TRUE,
          error |-> UpdateError(latestTaskData)]
    ELSE LET r == UpdateFields(this, tr, TaskDescriptor(latestTaskData),
                               latestTransfersData, 1)
         IN  [task |-> r.task, transfers |-> r.transfers, thrown |-> r.thrown,
              error |-> IF r.thrown THEN UpdateError(latestTaskData) ELSE NoError]

\* The default of the second parameter of _update: {}
NoTransfersData == [incoming |-> Undefined, outgoing |-> Undefined]

\* A faulty _emitEventForOutgoingTransfer that asks only whether an outgoing
\* transfer is held, not whether the event's sid is its sid.
EmitEventForOutgoingTransferAnySid(this, tr, eventType, rawEventData) ==
    IF ~IsString(eventType) \/ ~IsObject(rawEventData)
    THEN [task |-> this, transfers |-> tr, emitted |-> <<>>, error |-> TypeError, calls |-> <<>>]
    ELSE IF Truthy(tr.outgoing)
         THEN IF eventType.val = TRANSFER_INITIATED
              THEN LET tr1 == TransfersUpdateOutgoing(tr, rawEventData, Undefined) IN
                   [task |-> this, transfers |-> tr1,
                    emitted |-> <<[emitter |-> "task",
                                   name |-> taskTransferEventTypes[TRANSFER_INITIATED],
                                   payload |-> tr1.outgoing]>>,
                    error |-> NoError,
                    calls |-> <<"transfers._updateOutgoing", "emit">>]
              ELSE LET r == TransfersEmitEvent(tr, eventType, rawEventData) IN
                   [task |-> this, transfers |-> r.transfers, emitted |-> r.emitted,
                    error |-> NoError, calls |-> <<"transfers._emitEvent">>]
         ELSE [task |-> this, transfers |-> tr, emitted |-> <<>>, error |-> NoError, calls |-> <<>>]

\* A faulty _emitEventForOutgoingTransfer that emits transferInitiated before
\* it replaces the outgoing transfer, so that the event carries the old one.
EmitEventForOutgoingTransferEmitFirst(this, tr, eventType, rawEventData) ==
    IF ~IsString(eventType) \/ ~IsObject(rawEventData)
    THEN [task |-> this, transfers |-> tr, emitted |-> <<>>, error |-> TypeError, calls |-> <<>>]
    ELSE IF Truthy(tr.outgoing) /\ tr.outgoing.sid = rawEventData.sid
         THEN IF eventType.val = TRANSFER_INITIATED
              THEN [task |-> this,
                    transfers |-> TransfersUpdateOutgoing(tr, rawEventData, Undefined),
                    emitted |-> <<[emitter |-> "task",
                                   name |-> taskTransferEventTypes[TRANSFER_INITIATED],
                                   payload |-> tr.outgoing]>>,
                    error |-> NoError,
                    calls |-> <<"emit", "transfers._updateOutgoing">>]
              ELSE LET r == TransfersEmitEvent(tr, eventType, rawEventData) IN
                   [task |-> this, transfers |-> r.transfers, emitted |-> r.emitted,
                    error |-> NoError, calls |-> <<"transfers._emitEvent">>]
         ELSE [task |-> this, transfers |-> tr, emitted |-> <<>>, error |-> NoError, calls |-> <<>>]

\* A faulty _emitEventForOutgoingTransfer without the _.pick: every kind of
\* taskTransferEventTypes takes the initiated branch.
EmitEventForOutgoingTransferNoPick(this, tr, eventType, rawEventData) ==
    IF ~IsString(eventType) \/ ~IsObject(rawEventData)
    THEN [task |-> this, transfers |-> tr, emitted |-> <<>>, error |-> TypeError, calls |-> <<>>]
    ELSE IF Truthy(tr.outgoing) /\ tr.outgoing.sid = rawEventData.sid
         THEN IF eventType.val \in DOMAIN taskTransferEventTypes
              THEN LET tr1 == TransfersUpdateOutgoing(tr, rawEventData, Undefined) IN
                   [task |-> this, transfers |-> tr1,
                    emitted |-> <<[emitter |-> "task",
                                   name |-> taskTransferEventTypes[TRANSFER_INITIATED],
                                   payload |-> tr1.outgoing]>>,
                    error |-> NoError,
                    calls |-> <<"transfers._updateOutgoing", "emit">>]
              ELSE LET r == TransfersEmitEvent(tr, eventType, rawEventData) IN
                   [task |-> this, transfers |-> r.transfers, emitted |-> r.emitted,
                    error |-> NoError, calls |-> <<"transfers._emitEvent">>]
         ELSE [task |-> this, transfers |-> tr, emitted |-> <<>>, error |-> NoError, calls |-> <<>>]

\* A faulty _emitEventForOutgoingTransfer whose guard also lets an event pass
\* while no outgoing transfer is held, so that transfer-initiated sets one up.
EmitEventForOutgoingTransferEstablishing(this, tr, eventType, rawEventData) ==
    IF ~IsString(eventType) \/ ~IsObject(rawEventData)
    THEN [task |-> this, transfers |-> tr, emitted |-> <<>>, error |-> TypeError, calls |-> <<>>]
    ELSE IF ~Truthy(tr.outgoing) \/ tr.outgoing.sid = rawEventData.sid
         THEN IF eventType.val \in {TRANSFER_INITIATED} \cap DOMAIN taskTransferEventTypes
              THEN LET tr1 == TransfersUpdateOutgoing(tr, rawEventData, Undefined) IN
                   [task |-> this, transfers |-> tr1,
                    emitted |-> <<[emitter |-> "task",
                                   name |-> taskTransferEventTypes[TRANSFER_INITIATED],
                                   payload |-> tr1.outgoing]>>,
                    error |-> NoError,
                    calls |-> <<"transfers._updateOutgoing", "emit">>]
              ELSE IF Truthy(tr.outgoing)
                   THEN LET r == TransfersEmitEvent(tr, eventType, rawEventData) IN
                        [task |-> this, transfers |-> r.transfers, emitted |-> r.emitted,
                         error |-> NoError, calls |-> <<"transfers._emitEvent">>]
                   ELSE [task |-> this, transfers |-> tr, emitted |-> <<>>,
                         error |-> NoError, calls |-> <<>>]
         ELSE [task |-> this, transfers |-> tr, emitted |-> <<>>, error |-> NoError, calls |-> <<>>]

\* Task._emitEventForOutgoingTransfer(eventType, rawEventData)
EmitEventForOutgoingTransfer(this, tr, eventType, rawEventData) ==
    IF ~IsString(eventType) \/ ~IsObject(rawEventData)
    THEN [task |-> this, transfers |-> tr, emitted |-> <<>>, error |-> TypeError, calls |-> <<>>]
    ELSE IF Truthy(tr.outgoing) /\ tr.outgoing.sid = rawEventData.sid
         THEN IF eventType.val \in {TRANSFER_INITIATED} \cap DOMAIN taskTransferEventTypes
              THEN LET tr1 == TransfersUpdateOutgoing(tr, rawEventData, Undefined) IN
                   [task |-> this, transfers |-> tr1,
                    emitted |-> <<[emitter |-> "task",
                                   name |-> taskTransferEventTypes[TRANSFER_INITIATED],
                                   payload |-> tr1.outgoing]>>,
                    error |-> NoError,
                    calls |-> <<"transfers._updateOutgoing", "emit">>]
              ELSE LET r == TransfersEmitEvent(tr, eventType, rawEventData) IN
                   [task |-> this, transfers |-> r.transfers, emitted |-> r.emitted,
                    error |-> NoError, calls |-> <<"transfers._emitEvent">>]
         ELSE [task |-> this, transfers |-> tr, emitted |-> <<>>, error |-> NoError, calls |-> <<>>]

\* A faulty _emitEvent without the two argument checks.
EmitEventUnchecked(this, eventType, rawEventData) ==
    [emitted |-> <<[emitter |-> "task", name |-> eventType.val, payload |-> this]>>,
     error |-> NoError]

\* Task._emitEvent(eventType, rawEventData)
EmitEvent(this, eventType, rawEventData) ==
    IF ~IsString(eventType) \/ ~IsObject(rawEventData)
    THEN [emitted |-> <<>>, error |-> TypeError]
    ELSE [emitted |-> <<[emitter |-> "task", name |-> eventType.val, payload |-> this]>>,
          error |-> NoError]

\* ------------------------------------------------------------------ Routes
WorkspaceSid == "WS1"
WorkerSid == "WK1"
RESERVATION_LIST == "reservationList"
RESERVATION_INSTANCE == "reservationInstance"
WORKER_INSTANCE == "workerInstance"
WORKER_LIST == "workerList"
TASK_RESERVATION_INSTANCE == "taskReservationInstance"
TASK_LIST == "taskList"
TASK_INSTANCE == "taskInstance"
TASK_TRANSFER_LIST == "taskTransferList"
TASK_TRANSFER_INSTANCE == "taskTransferInstance"
TASKQUEUE_LIST == "taskQueueList"
WORKER_CHANNELS == "workerChannels"
ACTIVITIES_LIST == "activitiesList"
CUSTOMER_PARTICIPANT_INSTANCE == "customerParticipantInstance"
WORKER_PARTICIPANT_INSTANCE == "workerParticipantInstance"
HOLD_WORKER_PARTICIPANT_INSTANCE == "holdWorkerParticipantInstance"
KICK_WORKER_PARTICIPANT == "kickWorkerParticipant"

\* The names the constructor registers
RouteNames ==
    {ACTIVITIES_LIST, WORKER_INSTANCE, WORKER_LIST, RESERVATION_INSTANCE, RESERVATION_LIST,
     TASK_LIST, TASK_INSTANCE, TASK_TRANSFER_LIST, TASK_TRANSFER_INSTANCE,
     TASK_RESERVATION_INSTANCE, TASKQUEUE_LIST, WORKER_CHANNELS,
     CUSTOMER_PARTICIPANT_INSTANCE, WORKER_PARTICIPANT_INSTANCE,
     HOLD_WORKER_PARTICIPANT_INSTANCE, KICK_WORKER_PARTICIPANT}

\* this.routes of the Routes constructor, each path as its segments
routes ==
    [r \in RouteNames |->
        CASE r = ACTIVITIES_LIST -> <<"Workspaces", WorkspaceSid, "Activities">>
          [] r = WORKER_INSTANCE -> <<"Workspaces", WorkspaceSid, "Workers", WorkerSid>>
          [] r = WORKER_LIST -> <<"Workspaces", WorkspaceSid, "Workers">>
          [] r = RESERVATION_INSTANCE ->
                <<"Workspaces", WorkspaceSid, "Workers", WorkerSid, "Reservations", "%s">>
          [] r = RESERVATION_LIST ->
                <<"Workspaces", WorkspaceSid, "Workers", WorkerSid, "Reservations">>
          [] r = TASK_LIST -> <<"Workspaces", WorkspaceSid, "Tasks">>
          [] r = TASK_INSTANCE -> <<"Workspaces", WorkspaceSid, "Tasks", "%s">>
          [] r = TASK_TRANSFER_LIST ->
                <<"Workspaces", WorkspaceSid, "Workers", WorkerSid, "Transfers">>
          [] r = TASK_TRANSFER_INSTANCE ->
                <<"Workspaces", WorkspaceSid, "Workers", WorkerSid, "Transfers", "%s">>
          [] r = TASK_RESERVATION_INSTANCE ->
                <<"Workspaces", WorkspaceSid, "Tasks", "%s", "Reservations", "%s">>
          [] r = TASKQUEUE_LIST -> <<"Workspaces", WorkspaceSid, "TaskQueues">>
          [] r = WORKER_CHANNELS ->
                <<"Workspaces", WorkspaceSid, "Workers", WorkerSid, "WorkerChannels">>
          [] r = CUSTOMER_PARTICIPANT_INSTANCE ->
                <<"Workspaces", WorkspaceSid, "Workers", WorkerSid, "CustomerParticipant">>
          [] r = WORKER_PARTICIPANT_INSTANCE ->
                <<"Workspaces", WorkspaceSid, "Workers", WorkerSid, "WorkerParticipant">>
          [] r = HOLD_WORKER_PARTICIPANT_INSTANCE ->
                <<"Workspaces", WorkspaceSid, "Workers", WorkerSid, "HoldWorkerParticipant">>
          [] r = KICK_WORKER_PARTICIPANT ->
                <<"Workspaces", WorkspaceSid, "Workers", WorkerSid, "KickWorkerParticipant">>]

\* path.replace(/%s/, arg): the first placeholder becomes arg
RECURSIVE ReplaceFirst(_, _)
ReplaceFirst(path, arg) ==
    IF path = <<>> THEN <<>>
    ELSE IF Head(path) = "%s" THEN <<arg>> \o Tail(path)
    ELSE <<Head(path)>> \o ReplaceFirst(Tail(path), arg)

RECURSIVE ReplaceAll(_, _)
ReplaceAll(path, args) ==
    IF args = <<>> THEN path ELSE ReplaceAll(ReplaceFirst(path, Head(args)), Tail(args))

Placeholders(path) == Cardinality({i \in DOMAIN path : path[i] = "%s"})

\* Errors.INVALID_ARGUMENT.clone(message), by what the message says
RouteDoesNotExist == "INVALID_ARGUMENT: route does not exist"
InvalidNumberOfArguments == "INVALID_ARGUMENT: invalid number of positional arguments"
NoRoute == [thrown |-> FALSE, error |-> "none", path |-> <<>>]

\* Routes.getRoute(route, ...args)
GetRoute(route, args) ==
    IF route \notin DOMAIN routes
    THEN [thrown |-> TRUE, error |-> RouteDoesNotExist, path |-> <<>>]
    ELSE IF Len(args) > 0
         THEN IF Len(args) # Placeholders(routes[route])
              THEN [thrown |-> TRUE, error |-> InvalidNumberOfArguments, path |-> <<>>]
              ELSE [thrown |-> FALSE, error |-> "none",
                    path |-> ReplaceAll(routes[route], args)]
         ELSE [thrown |-> FALSE, error |-> "none", path |-> routes[route]]

\* ---------------------------------------------------------------- commands
\* What the synchronous part of a command does: it throws, or it returns a
\* promise that is already rejected, or it posts a request and returns the
\* pending promise.
Throws(e) == [kind |-> "thrown", error |-> e, sent |-> <<>>]
RejectsAtOnce(e) == [kind |-> "rejected", error |-> e, sent |-> <<>>]
Posts(url, params, version) ==
    [kind |-> "pending", error |-> NoError,
     sent |-> <<[url |-> url, params |-> params, version |-> version]>>]

\* A faulty complete that posts without looking at its argument.
CompleteUnchecked(this, reason) ==
    Posts(GetRoute(TASK_INSTANCE, <<this.sid>>).path,
          [AssignmentStatus |-> Str(TASK_STATUS_COMPLETED), Reason |-> reason],
          API_V1)

\* Task.complete(reason)
Complete(this, reason) ==
    IF ~IsString(reason)
    THEN Throws(TypeError)
    ELSE Posts(GetRoute(TASK_INSTANCE, <<this.sid>>).path,
               [AssignmentStatus |-> Str(TASK_STATUS_COMPLETED), Reason |-> reason],
               API_V1)

\* Task.wrapUp(options)
WrapUp(this, options) ==
    IF Truthy(options.reason)
    THEN IF IsString(options.reason)
         THEN Posts(GetRoute(TASK_INSTANCE, <<this.sid>>).path,
                    [AssignmentStatus |-> Str(TASK_STATUS_WRAPPING), Reason |-> options.reason],
                    API_V1)
         ELSE Throws(PlainError)
    ELSE Posts(GetRoute(TASK_INSTANCE, <<this.sid>>).path,
               [AssignmentStatus |-> Str(TASK_STATUS_WRAPPING)],
               API_V1)

\* Task.setAttributes(attributes)
SetAttributes(this, attributes) ==
    IF ~IsObject(attributes)
    THEN Throws(TypeError)
    ELSE Posts(GetRoute(TASK_INSTANCE, <<this.sid>>).path,
               [Attributes |-> attributes],
               API_V1)

\* util/Tools.validateOptions(options, types): every option given is a
\* recognised one and passes its type check.
ValidateOptions(options, types) ==
    \A k \in DOMAIN options : k \in types /\ IsBoolean(options[k])

\* _.upperFirst on the option names
UpperFirst(k) == IF k = "hold" THEN "Hold" ELSE IF k = "mute" THEN "Mute" ELSE k

\* Task.updateParticipant(options)
UpdateParticipant(this, options) ==
    IF ~ValidateOptions(options, {"hold"})
    THEN Throws(TypeError)
    ELSE Posts(GetRoute(CUSTOMER_PARTICIPANT_INSTANCE, <<>>).path,
               [k \in {"TaskSid"} \cup {UpperFirst(o) : o \in DOMAIN options} |->
                    IF k = "TaskSid" THEN Str(this.sid)
                    ELSE options[CHOOSE o \in DOMAIN options : UpperFirst(o) = k]],
               API_V2)

\* Task.kick(workerSid)
Kick(this, workerSid) ==
    IF ~IsString(workerSid)
    THEN Throws(TypeError)
    ELSE Posts(GetRoute(KICK_WORKER_PARTICIPANT, <<>>).path,
               [TaskSid |-> Str(this.sid), TargetWorkerSid |-> workerSid],
               API_V2)

\* Task.hold(targetWorkerSid, onHold)
Hold(this, targetWorkerSid, onHold) ==
    IF ~IsString(targetWorkerSid)
    THEN Throws(TypeError)
    ELSE IF ~IsBoolean(onHold)
         THEN Throws(TypeError)
         ELSE Posts(GetRoute(HOLD_WORKER_PARTICIPANT_INSTANCE, <<>>).path,
                    [TaskSid |-> Str(this.sid), TargetWorkerSid |-> targetWorkerSid,
                     Hold |-> onHold],
                    API_V2)

\* Task.transfer(to, options) up to its await: an async function, so its
\* throw is a rejected promise.
Transfer(this, to, options) ==
    IF ~IsString(to)
    THEN RejectsAtOnce(TypeError)
    ELSE LET keys == {"ReservationSid", "TaskSid", "To"}
                     \cup (IF Truthy(options.attributes) THEN {"Attributes"} ELSE {})
                     \cup (IF Truthy(options.mode) THEN {"Mode"} ELSE {})
                     \cup (IF Truthy(options.priority) THEN {"Priority"} ELSE {})
         IN  Posts(GetRoute(TASK_TRANSFER_LIST, <<>>).path,
                   [k \in keys |->
                       CASE k = "ReservationSid" -> Str(this.reservationSid)
                         [] k = "TaskSid" -> Str(this.sid)
                         [] k = "To" -> to
                         [] k = "Attributes" -> options.attributes
                         [] k = "Mode" -> options.mode
                         [] k = "Priority" -> options.priority],
                   API_V2)

\* A faulty then-handler that rebuilds the TransferSet from the response.
UpdateFromResponseNewTransfers(this, tr, response) ==
    Update(this, NewTransfers, response, NoTransfersData) @@ [emitted |-> <<>>]

\* A faulty then-handler that copies the status of the response and leaves
\* the other fields for later.
UpdateFromResponseStatusOnly(this, tr, response) ==
    LET r == Update(this, tr, response, NoTransfersData) IN
    [task |-> IF r.thrown THEN this ELSE [this EXCEPT !.status = r.task.status],
     transfers |-> r.transfers, thrown |-> r.thrown, error |-> r.error, emitted |-> <<>>]

\* A then-handler that emits 'updated' once it has reconciled.
UpdateFromResponseEmitting(this, tr, response) ==
    LET r == Update(this, tr, response, NoTransfersData) IN
    r @@ [emitted |-> IF r.thrown THEN <<>>
                      ELSE <<[emitter |-> "task", name |-> "updated", payload |-> r.task]>>]

\* The then-handler of complete, wrapUp, setAttributes, updateParticipant,
\* kick and hold: response => this._update(response).  It emits nothing.
UpdateFromResponse(this, tr, response) ==
    Update(this, tr, response, NoTransfersData) @@ [emitted |-> <<>>]

\* A faulty rest of transfer that builds a fresh TransferSet around the
\* response, losing the incoming transfer.
TransferFromResponseResetting(this, tr, response) ==
    [task |-> this,
     transfers |-> TransfersUpdateOutgoing(NewTransfers, response, Bool("true")),
     thrown |-> FALSE, error |-> NoError, emitted |-> <<>>]

\* A faulty rest of transfer that announces the transfer it has set up, as
\* if an initiated event had waited for it.
TransferFromResponseEmitting(this, tr, response) ==
    LET tr1 == TransfersUpdateOutgoing(tr, response, Bool("true")) IN
    [task |-> this, transfers |-> tr1, thrown |-> FALSE, error |-> NoError,
     emitted |-> <<[emitter |-> "task", name |-> taskTransferEventTypes[TRANSFER_INITIATED],
                    payload |-> tr1.outgoing]>>]

\* transfer after its await: this.transfers._updateOutgoing(response, true)
TransferFromResponse(this, tr, response) ==
    [task |-> this, transfers |-> TransfersUpdateOutgoing(tr, response, Bool("true")),
     thrown |-> FALSE, error |-> NoError, emitted |-> <<>>]

\* A faulty rejection path that wraps the failure as _update's catch does.
PostRejectedWrapped(this, tr, e) ==
    [task |-> this, transfers |-> tr, error |-> [name |-> "Error", sid |-> this.sid]]

\* A rejected post: no handler of the chain runs and the rejection is the
\* result of the command.
PostRejected(this, tr, e) == [task |-> this, transfers |-> tr, error |-> e]

\* ------------------------------------------------------------------ inputs
ReasonArgs == {Undefined, Str(""), Str("done")}
WrapUpOptions == {[reason |-> r] : r \in {Undefined, Str(""), Str("done"), Num("0"), Num("5")}}
AttributesArgs == {Obj("{k:1}"), Str("foo"), Undefined}
ParticipantOptions == {[hold |-> Bool("true")], [hold |-> Str("yes")], [mute |-> Bool("true")]}
WorkerSidArgs == {Undefined, Str(""), Str("WK2")}
\* hold(targetWorkerSid, onHold) inputs
HoldArgs ==
    {<<Str("WK2"), Bool("true")>>, <<Str("WK2"), Undefined>>,
     <<Undefined, Bool("true")>>, <<Str(""), Bool("false")>>}
TransferOptions ==
    {[attributes |-> Undefined, mode |-> Undefined, priority |-> Undefined],
     [attributes |-> Undefined, mode |-> Str("COLD"), priority |-> Undefined],
     [attributes |-> Str("{}"), mode |-> Undefined, priority |-> Num("0")],
     [attributes |-> Str("{}"), mode |-> Str("WARM"), priority |-> Num("5")]}
\* transfer(to, options) inputs
TransferArgs ==
    {<<Str("WK2"), o>> : o \in TransferOptions}
    \cup {<<to, [attributes |-> Undefined, mode |-> Undefined, priority |-> Undefined]>> :
            to \in WorkerSidArgs}

\* What request.post rejects with
RemoteErrors == {[name |-> "RemoteCallFailed", sid |-> "network"],
                 [name |-> "RemoteCallFailed", sid |-> "server"]}

\* The events delivered: every transfer kind with every transfer payload, and
\* the two ill-typed deliveries.
TransferEvents ==
    {<<Str(k), d>> : k \in TransferEventKinds, d \in TransferPayloads}
    \cup {<<Undefined, TransferPayload("TR1", 1)>>, <<Str(TRANSFER_INITIATED), Undefined>>}
TaskEvents ==
    {<<Str(k), Obj("{}")>> : k \in TaskEventKinds}
    \cup {<<Undefined, Obj("{}")>>, <<Str("updated"), Undefined>>, <<Str(""), Obj("{}")>>}

\* A faulty classification that knows transfer-initiated only.
TransferClassifiedInitiatedOnly(eventType) ==
    IsString(eventType) /\ eventType.val = TRANSFER_INITIATED

\* The event source's classification of an event type: the keys of
\* taskTransferEventTypes are the transfer events.
TransferClassified(eventType) ==
    IsString(eventType) /\ eventType.val \in DOMAIN taskTransferEventTypes

\* Everything the event source delivers.  A transfer-classified event goes to
\* _emitEventForOutgoingTransfer and every other to _emitEvent; an event type
\* that is no string cannot be classified and may reach either.
Deliveries == TransferEvents \cup TaskEvents
ToOutgoingTransferPath(eventType) == TransferClassified(eventType) \/ ~IsString(eventType)
ToGenericPath(eventType) == ~TransferClassified(eventType)

TransfersDatas ==
    {JsNull,
     [incoming |-> IncomingPayload, outgoing |-> Undefined],
     [incoming |-> IncomingPayload, outgoing |-> MalformedTransferPayload],
     [incoming |-> Undefined, outgoing |-> MalformedTransferPayload]}
    \cup {[incoming |-> Undefined, outgoing |-> o] : o \in {Undefined} \cup TransferPayloads}
\* The (Task data, transfers data) pairs _update is called with: every Task
\* payload without transfers data, one well-formed Task payload with every
\* transfers data, and one malformed Task payload with an outgoing transfer.
UpdateInputs ==
    {<<p, NoTransfersData>> : p \in TaskPayloads}
    \cup {<<TaskPayload(TaskSid, LastVersion), t>> : t \in TransfersDatas}
    \cup {<<WithoutAge(TaskPayload(TaskSid, LastVersion)),
            [incoming |-> Undefined, outgoing |-> TransferPayload("TR1", 1)]>>}

\* getRoute inputs: a name that is not registered, and up to MaxArgs sids
UnregisteredRoute == "noSuchRoute"
RouteArgSids == {TaskSid, ReservationSid}
RouteArgs == UNION {[1..n -> RouteArgSids] : n \in 0..MaxArgs}

\* The handler a command attaches to its post: the then-handler that calls
\* _update (the same text in six commands) or the rest of transfer.
UpdateCommands == {"complete", "wrapUp", "setAttributes", "updateParticipant", "kick", "hold"}
HandlerOf(name) == IF name \in UpdateCommands THEN "update" ELSE "transfer"
Handlers == {"update", "transfer"}

\* ------------------------------------------------------------------- state
VARIABLES
    task,       \* the Task's own fields
    transfers,  \* this.transfers: the incoming and the outgoing slot
    pending,    \* per handler, the number of posts that have not settled yet
    op,         \* the operation that ran last
    args,       \* its arguments
    outcome,    \* how it ended: returned, thrown, pending, resolved, rejected
    emitted,    \* the events it emitted, in order
    sent,       \* the requests it posted
    calls,      \* the TransferSet routines and emits it called, in order
    repeated,   \* it was a successful _update whose input was also the
                \* input of the successful _update right before it
    returnedRoute \* what the last getRoute called on the route table returned

vars == <<task, transfers, pending, op, args, outcome, emitted, sent, calls, repeated,
          returnedRoute>>

\* The input of the _update that operation o with arguments a ran to its end,
\* as a one-element sequence; <<>> if it ran none or it threw.
UpdateInputOf(o, a, out) ==
    IF o = "_update" /\ out.kind = "returned"
    THEN <<[latestTaskData |-> a.latestTaskData,
            latestTransfersData |-> a.latestTransfersData]>>
    ELSE IF o = "response" /\ a.handler = "update" /\ out.kind = "resolved"
         THEN <<[latestTaskData |-> a.response, latestTransfersData |-> NoTransfersData]>>
         ELSE <<>>

Init ==
    /\ task = NewTask(TaskDescriptor(TaskPayload(TaskSid, 1)), ReservationSid)
    /\ transfers = NewTransfers
    /\ pending = [h \in Handlers |-> 0]
    /\ op = "constructor"
    /\ args = [reservationSid |-> ReservationSid]
    /\ outcome = [kind |-> "returned", error |-> NoError]
    /\ emitted = <<>>
    /\ sent = <<>>
    /\ calls = <<>>
    /\ repeated = FALSE
    /\ returnedRoute = NoRoute

NumPending == pending["update"] + pending["transfer"]

\* A command is called with arguments a and its synchronous part does r.
Invoke(name, a, r) ==
    /\ r.kind = "pending" => NumPending < MaxPending
    /\ pending' = IF r.kind = "pending"
                  THEN [pending EXCEPT ![HandlerOf(name)] = @ + 1]
                  ELSE pending
    /\ op' = name
    /\ args' = a
    /\ outcome' = [kind |-> r.kind, error |-> r.error]
    /\ sent' = r.sent
    /\ emitted' = <<>>
    /\ calls' = <<>>
    /\ repeated' = FALSE
    /\ UNCHANGED <<task, transfers, returnedRoute>>

CallComplete ==
    \E reason \in ReasonArgs :
        Invoke("complete", [reason |-> reason], Complete(task, reason))

CallWrapUp ==
    \E options \in WrapUpOptions :
        Invoke("wrapUp", [options |-> options], WrapUp(task, options))

CallSetAttributes ==
    \E attributes \in AttributesArgs :
        Invoke("setAttributes", [attributes |-> attributes], SetAttributes(task, attributes))

CallUpdateParticipant ==
    \E options \in ParticipantOptions :
        Invoke("updateParticipant", [options |-> options], UpdateParticipant(task, options))

CallKick ==
    \E workerSid \in WorkerSidArgs :
        Invoke("kick", [workerSid |-> workerSid], Kick(task, workerSid))

CallHold ==
    \E a \in HoldArgs :
        LET targetWorkerSid == a[1]
            onHold == a[2]
        IN
        Invoke("hold", [targetWorkerSid |-> targetWorkerSid, onHold |-> onHold],
               Hold(task, targetWorkerSid, onHold))

CallTransfer ==
    \E a \in TransferArgs :
        LET to == a[1]
            options == a[2]
        IN
        Invoke("transfer", [to |-> to, options |-> options], Transfer(task, to, options))

\* A pending post resolved with `response` and its handler h ran, doing r.
Responded(h, response, r) ==
    /\ task' = r.task
    /\ transfers' = r.transfers
    /\ pending[h] > 0
    /\ pending' = [pending EXCEPT ![h] = @ - 1]
    /\ op' = "response"
    /\ args' = [handler |-> h, response |-> response]
    /\ outcome' = IF r.thrown THEN [kind |-> "rejected", error |-> r.error]
                              ELSE [kind |-> "resolved", error |-> NoError]
    /\ emitted' = r.emitted
    /\ sent' = <<>>
    /\ calls' = <<>>
    /\ repeated' = /\ UpdateInputOf(op', args', outcome') # <<>>
                   /\ UpdateInputOf(op', args', outcome') = UpdateInputOf(op, args, outcome)
    /\ UNCHANGED returnedRoute

UpdateResponse ==
    \E response \in TaskPayloads :
        Responded("update", response, UpdateFromResponse(task, transfers, response))

TransferResponse ==
    \E response \in TransferPayloads :
        Responded("transfer", response, TransferFromResponse(task, transfers, response))

\* A pending post rejected with e.
PostRejects ==
    \E h \in Handlers, e \in RemoteErrors :
        LET r == PostRejected(task, transfers, e) IN
        /\ pending[h] > 0
        /\ task' = r.task
        /\ transfers' = r.transfers
        /\ pending' = [pending EXCEPT ![h] = @ - 1]
        /\ op' = "rejection"
        /\ args' = [handler |-> h, error |-> e]
        /\ outcome' = [kind |-> "rejected", error |-> r.error]
        /\ emitted' = <<>>
        /\ sent' = <<>>
        /\ calls' = <<>>
        /\ repeated' = FALSE
        /\ UNCHANGED returnedRoute

\* The event source hands a transfer event to _emitEventForOutgoingTransfer.
DispatchOutgoingTransferEvent ==
    \E ev \in Deliveries :
        LET eventType == ev[1]
            rawEventData == ev[2]
            r == EmitEventForOutgoingTransfer(task, transfers, eventType, rawEventData) IN
        /\ ToOutgoingTransferPath(eventType)
        /\ task' = r.task
        /\ transfers' = r.transfers
        /\ op' = "_emitEventForOutgoingTransfer"
        /\ args' = [eventType |-> eventType, rawEventData |-> rawEventData]
        /\ outcome' = [kind |-> IF r.error = NoError THEN "returned" ELSE "thrown",
                       error |-> r.error]
        /\ emitted' = r.emitted
        /\ calls' = r.calls
        /\ sent' = <<>>
        /\ repeated' = FALSE
        /\ UNCHANGED <<pending, returnedRoute>>

\* The event source hands a Task event to _emitEvent.
DispatchEvent ==
    \E ev \in Deliveries :
        LET eventType == ev[1]
            rawEventData == ev[2]
            r == EmitEvent(task, eventType, rawEventData) IN
        /\ ToGenericPath(eventType)
        /\ op' = "_emitEvent"
        /\ args' = [eventType |-> eventType, rawEventData |-> rawEventData]
        /\ outcome' = [kind |-> IF r.error = NoError THEN "returned" ELSE "thrown",
                       error |-> r.error]
        /\ emitted' = r.emitted
        /\ calls' = IF r.emitted = <<>> THEN <<>> ELSE <<"emit">>
        /\ sent' = <<>>
        /\ repeated' = FALSE
        /\ UNCHANGED <<task, transfers, pending, returnedRoute>>

\* The owner of the Task (its reservation) calls _update with fresh data.
Reconcile ==
    \E input \in UpdateInputs :
        LET latestTaskData == input[1]
            latestTransfersData == input[2]
            r == Update(task, transfers, latestTaskData, latestTransfersData) IN
        /\ task' = r.task
        /\ transfers' = r.transfers
        /\ op' = "_update"
        /\ args' = [latestTaskData |-> latestTaskData,
                    latestTransfersData |-> latestTransfersData]
        /\ outcome' = [kind |-> IF r.thrown THEN "thrown" ELSE "returned", error |-> r.error]
        /\ emitted' = <<>>
        /\ calls' = <<>>
        /\ sent' = <<>>
        /\ repeated' = /\ UpdateInputOf(op', args', outcome') # <<>>
                       /\ UpdateInputOf(op', args', outcome') = UpdateInputOf(op, args, outcome)
        /\ UNCHANGED <<pending, returnedRoute>>

Next ==
    \/ CallComplete
    \/ CallWrapUp
    \/ CallSetAttributes
    \/ CallUpdateParticipant
    \/ CallKick
    \/ CallHold
    \/ CallTransfer
    \/ UpdateResponse
    \/ TransferResponse
    \/ PostRejects
    \/ DispatchOutgoingTransferEvent
    \/ DispatchEvent
    \/ Reconcile

Spec == Init /\ [][Next]_vars

\* ------------------------------------------------------- the route table
\* A caller asks the route table of the worker for a route.
CallGetRoute ==
    \E route \in RouteNames \cup {UnregisteredRoute}, a \in RouteArgs :
        LET r == GetRoute(route, a) IN
        /\ returnedRoute' = r
        /\ op' = "getRoute"
        /\ args' = [route |-> route, args |-> a]
        /\ outcome' = [kind |-> IF r.thrown THEN "thrown" ELSE "returned", error |-> NoError]
        /\ emitted' = <<>>
        /\ sent' = <<>>
        /\ calls' = <<>>
        /\ repeated' = FALSE
        /\ UNCHANGED <<task, transfers, pending>>

RoutesNext == CallGetRoute

RoutesSpec == Init /\ [][RoutesNext]_vars

\* ------------------------------------------------------- outgoing transfers
\* The step is a dispatch of a well-typed outgoing-transfer event.
TransferEventStep ==
    /\ op' = "_emitEventForOutgoingTransfer"
    /\ IsString(args'.eventType)
    /\ IsObject(args'.rawEventData)

\* The event of the step carries the sid of the outgoing transfer held
\* before the step.
EventMatchesHeld ==
    /\ transfers.outgoing # JsNull
    /\ transfers.outgoing.sid = args'.rawEventData.sid

\* C1: a transfer event of any kind whose sid is not the sid of the held
\* outgoing transfer, or that arrives while none is held, changes neither the
\* TransferSet nor any Task field, emits nothing and raises no error.
C1_TransferIdentityGuard ==
    [][(TransferEventStep /\ ~EventMatchesHeld)
        => /\ transfers' = transfers
           /\ task' = task
           /\ emitted' = <<>>
           /\ calls' = <<>>
           /\ outcome' = [kind |-> "returned", error |-> NoError]]_vars

\* A transfer-initiated event for another sid than the held one was dropped.
C1_Witness ==
    /\ op = "_emitEventForOutgoingTransfer"
    /\ args.eventType = Str(TRANSFER_INITIATED)
    /\ IsObject(args.rawEventData)
    /\ transfers.outgoing # JsNull
    /\ transfers.outgoing.sid # args.rawEventData.sid
    /\ transfers.outgoing.status # args.rawEventData.transfer_status
    /\ emitted = <<>>

\* C2: a transfer-initiated event with the sid of the held outgoing transfer
\* first replaces the outgoing slot by the transfer built from the event's
\* payload and then emits exactly one transferInitiated event, from the Task,
\* whose payload is that new outgoing transfer.
C2_InitiatedReplacesThenEmits ==
    [][(TransferEventStep /\ EventMatchesHeld /\ args'.eventType.val = TRANSFER_INITIATED)
        => /\ transfers'.outgoing = TransferDescriptor(args'.rawEventData)
           /\ transfers'.incoming = transfers.incoming
           /\ calls' = <<"transfers._updateOutgoing", "emit">>
           /\ emitted' = <<[emitter |-> "task", name |-> "transferInitiated",
                            payload |-> transfers'.outgoing]>>
           /\ task' = task
           /\ outcome'.kind = "returned"]_vars

\* A transfer-initiated event replaced the held transfer and was emitted.
C2_Witness ==
    /\ op = "_emitEventForOutgoingTransfer"
    /\ args.eventType = Str(TRANSFER_INITIATED)
    /\ Len(emitted) = 1
    /\ emitted[1].name = "transferInitiated"
    /\ emitted[1].payload = TransferDescriptor(args.rawEventData)
    /\ transfers.outgoing = TransferDescriptor(args.rawEventData)

\* C3: a transfer event of another kind than initiated never creates or
\* replaces the outgoing transfer: with the sid of the held transfer it goes
\* to the TransferSet's own _emitEvent and nowhere else (no _updateOutgoing,
\* nothing emitted from the Task, the held transfer keeps its sid, mode and
\* other leg); with any other sid, or with none held, nothing happens.
C3_OtherKindsNeverReplace ==
    [][(TransferEventStep /\ args'.eventType.val # TRANSFER_INITIATED)
        => /\ task' = task
           /\ transfers'.incoming = transfers.incoming
           /\ IF EventMatchesHeld
              THEN /\ calls' = <<"transfers._emitEvent">>
                   /\ \A i \in DOMAIN emitted' : emitted'[i].emitter # "task"
                   /\ transfers'.outgoing # JsNull
                   /\ transfers'.outgoing.sid = transfers.outgoing.sid
                   /\ transfers'.outgoing.mode = transfers.outgoing.mode
                   /\ transfers'.outgoing.to = transfers.outgoing.to
              ELSE /\ calls' = <<>>
                   /\ emitted' = <<>>
                   /\ transfers'.outgoing = transfers.outgoing]_vars

\* A transfer-completed event for the held transfer went to the TransferSet:
\* the held transfer took the event's status and kept its other leg.
C3_Witness ==
    /\ op = "_emitEventForOutgoingTransfer"
    /\ args.eventType = Str("transfer-completed")
    /\ calls = <<"transfers._emitEvent">>
    /\ transfers.outgoing # JsNull
    /\ transfers.outgoing.sid = args.rawEventData.sid
    /\ transfers.outgoing.status = args.rawEventData.transfer_status
    /\ transfers.outgoing.to # args.rawEventData.transfer_to

\* ----------------------------------------------------------- reconciliation
\* The update set as the specification lists it: attributes, status,
\* workflow sid and name, queue sid and name, priority, reason, routing
\* target, timeout, task-channel sid and unique name, age, add-ons and
\* date updated.
UpdateSet ==
    {"attributes", "status", "workflowSid", "workflowName", "queueSid", "queueName",
     "priority", "reason", "routingTarget", "timeout", "taskChannelSid",
     "taskChannelUniqueName", "age", "addOns", "dateUpdated"}

\* The step is an _update, called directly or by a command's then-handler.
UpdateStep ==
    \/ op' = "_update"
    \/ op' = "response" /\ args'.handler = "update"

\* C4: whenever _update fails, every Task field of the update set and the
\* TransferSet hold the values they had before the call.
C4_FailedUpdateChangesNothing ==
    [][(UpdateStep /\ outcome'.kind \in {"thrown", "rejected"})
        => /\ task' = task
           /\ transfers' = transfers]_vars

\* C5: a command whose post rejects changes nothing, neither when it is
\* called nor when the rejection arrives, and its result is rejected with
\* the very failure the post gave.
C5_RejectedPostPropagates ==
    [][/\ outcome'.kind = "pending" => (task' = task /\ transfers' = transfers)
       /\ op' = "rejection"
            => /\ task' = task
               /\ transfers' = transfers
               /\ outcome' = [kind |-> "rejected", error |-> args'.error]
               /\ emitted' = <<>>
               /\ sent' = <<>>]_vars

\* The post of a transfer was rejected while an outgoing transfer is held and
\* the Task has been reconciled before.
C5_Witness ==
    /\ op = "rejection"
    /\ args.handler = "transfer"
    /\ args.error \in RemoteErrors
    /\ outcome = [kind |-> "rejected", error |-> args.error]
    /\ transfers.outgoing # JsNull
    /\ task.status = "completed"

\* The step is a call of a command.
CallStep == op' \in UpdateCommands \cup {"transfer"}

NonEmptyString(v) == IsString(v) /\ v.val # ""

\* The arguments of the call break the precondition the specification states.
StatedPreconditionBroken ==
    CASE op' = "complete" -> ~NonEmptyString(args'.reason)
      [] op' = "wrapUp" -> args'.options.reason # Undefined /\ ~IsString(args'.options.reason)
      [] op' = "setAttributes" -> ~IsObject(args'.attributes)
      [] op' = "updateParticipant" ->
            ~(DOMAIN args'.options \subseteq {"hold"}
              /\ \A k \in DOMAIN args'.options : IsBoolean(args'.options[k]))
      [] op' = "kick" -> ~NonEmptyString(args'.workerSid)
      [] op' = "hold" -> ~NonEmptyString(args'.targetWorkerSid) \/ ~IsBoolean(args'.onHold)
      [] op' = "transfer" -> ~NonEmptyString(args'.to)

\* The arguments of the call are of a wrong type: what the commands check.
WrongTypeArgument ==
    CASE op' = "complete" -> ~IsString(args'.reason)
      [] op' = "wrapUp" -> Truthy(args'.options.reason) /\ ~IsString(args'.options.reason)
      [] op' = "setAttributes" -> ~IsObject(args'.attributes)
      [] op' = "updateParticipant" ->
            ~(DOMAIN args'.options \subseteq {"hold"}
              /\ \A k \in DOMAIN args'.options : IsBoolean(args'.options[k]))
      [] op' = "kick" -> ~IsString(args'.workerSid)
      [] op' = "hold" -> ~IsString(args'.targetWorkerSid) \/ ~IsBoolean(args'.onHold)
      [] op' = "transfer" -> ~IsString(args'.to)

C7_FieldsEqualDescriptor ==
    LET u == UpdateInputOf(op, args, outcome) IN
    u # <<>> => \A f \in UpdateSet : task[f] = TaskDescriptor(u[1].latestTaskData)[f]

\* An _update with the second version of the payload returned on a Task that
\* was built from the first: the fields are those of the second.
C7_Witness ==
    /\ op = "_update"
    /\ outcome.kind = "returned"
    /\ args.latestTaskData = TaskPayload(TaskSid, 2)
    /\ task.status = "completed"
    /\ task.attributes = [k |-> 2]
    /\ task.dateUpdated = 102000
    /\ task.reason = "reason2"

\* C8: a successful _update with the input of the successful _update right
\* before it changes neither a Task field nor the TransferSet.
C8_UpdateIdempotent ==
    [][repeated' => (task' = task /\ transfers' = transfers)]_vars

\* The same Task payload and the same outgoing sub-payload were applied twice
\* in a row.
C8_Witness ==
    /\ repeated
    /\ op = "_update"
    /\ Truthy(args.latestTransfersData.outgoing)
    /\ transfers.outgoing = TransferDescriptor(args.latestTransfersData.outgoing)
    /\ task.status = "completed"

\* C9: while a command awaits its response, handling the response and
\* dispatching a transfer event commute: for every response and every event
\* both orders end with the same Task fields and the same TransferSet, the
\* response changes no transfer state and the event no Task field.
C9_ResponseAndEventCommute ==
    pending["update"] > 0 =>
        \A response \in TaskPayloads :
            LET a == UpdateFromResponse(task, transfers, response) IN
            /\ a.transfers = transfers
            /\ \A ev \in TransferEvents :
                  LET b == EmitEventForOutgoingTransfer(task, transfers, ev[1], ev[2])
                      ab == EmitEventForOutgoingTransfer(a.task, a.transfers, ev[1], ev[2])
                      ba == UpdateFromResponse(b.task, b.transfers, response)
                  IN  /\ b.task = task
                      /\ ab.task = ba.task
                      /\ ab.transfers = ba.transfers
                      /\ ab.emitted = b.emitted

\* A transfer event for the held transfer was applied while a command was
\* awaiting its response.
C9_Witness ==
    /\ pending["update"] > 0
    /\ op = "_emitEventForOutgoingTransfer"
    /\ calls # <<>>
    /\ transfers.outgoing # JsNull
    /\ transfers.outgoing.sid = args.rawEventData.sid

\* The transfers data carries neither an incoming nor an outgoing sub-payload.
NoSubPayload(latestTransfersData) ==
    \/ latestTransfersData = JsNull
    \/ ~Truthy(latestTransfersData.incoming) /\ ~Truthy(latestTransfersData.outgoing)

\* C10: an _update whose transfers data carries no sub-payload, and so every
\* _update run by the then-handler of complete, wrapUp, setAttributes,
\* updateParticipant, kick and hold, leaves both transfer slots as they were.
C10_NoSubPayloadLeavesTransfers ==
    [][(\/ op' = "_update" /\ NoSubPayload(args'.latestTransfersData)
        \/ op' = "response" /\ args'.handler = "update")
        => transfers' = transfers]_vars

\* A command's response was reconciled while an outgoing and an incoming
\* transfer were held.
C10_Witness ==
    /\ op = "response"
    /\ args.handler = "update"
    /\ outcome.kind = "resolved"
    /\ task.status = "completed"
    /\ transfers.outgoing # JsNull
    /\ transfers.incoming # JsNull

\* ---------------------------------------------------------------- transfer
\* The step is the handling of a transfer() response that resolved.
TransferResolvedStep ==
    /\ op' = "response"
    /\ args'.handler = "transfer"
    /\ outcome'.kind = "resolved"

\* C11: a successful transfer replaces the outgoing slot by the transfer
\* built from the response, so that the outgoing sid is the response's sid,
\* and changes neither a Task field nor the incoming slot.
C11_TransferSuccessFrame ==
    [][TransferResolvedStep
        => /\ transfers'.outgoing = TransferDescriptor(args'.response)
           /\ transfers'.outgoing.sid = args'.response.sid
           /\ transfers'.incoming = transfers.incoming
           /\ task' = task
           /\ emitted' = <<>>]_vars

\* A transfer() response was handled on a Task that had been reconciled and
\* held an incoming transfer: the outgoing transfer is the response's.
C11_Witness ==
    /\ op = "response"
    /\ args.handler = "transfer"
    /\ outcome.kind = "resolved"
    /\ transfers.incoming # JsNull
    /\ transfers.outgoing # JsNull
    /\ transfers.outgoing.sid = args.response.sid
    /\ args.response.sid = "TR2"
    /\ task.status = "completed"

\* The step is a transfer() call that posted its request.
TransferPostedStep ==
    /\ op' = "transfer"
    /\ outcome'.kind = "pending"

\* C12: the request of transfer carries ReservationSid, TaskSid and To, and
\* carries Attributes, Mode and Priority each if and only if the option is
\* present in options, with the option's value; priority 0 is a present
\* option.
C12_RequestCarriesPresentOptions ==
    [][TransferPostedStep
        => LET params == sent'[1].params
               options == args'.options
           IN  /\ Len(sent') = 1
               /\ {"ReservationSid", "TaskSid", "To"} \subseteq DOMAIN params
               /\ params.ReservationSid = Str(task.reservationSid)
               /\ params.TaskSid = Str(task.sid)
               /\ params.To = args'.to
               /\ "Attributes" \in DOMAIN params <=> options.attributes # Undefined
               /\ "Mode" \in DOMAIN params <=> options.mode # Undefined
               /\ "Priority" \in DOMAIN params <=> options.priority # Undefined
               /\ "Attributes" \in DOMAIN params => params.Attributes = options.attributes
               /\ "Mode" \in DOMAIN params => params.Mode = options.mode
               /\ "Priority" \in DOMAIN params => params.Priority = options.priority]_vars

\* ---------------------------------------------------------------- identity
\* C13: the Task's sid and reservationSid are the values its constructor
\* set, after every call, response, rejection, reconciliation and event.
C13_SidsImmutable ==
    /\ task.sid = TaskSid
    /\ task.reservationSid = ReservationSid

\* An _update with the payload of another Task returned: the sid is still
\* the Task's own.
C13_Witness ==
    /\ op = "_update"
    /\ outcome.kind = "returned"
    /\ args.latestTaskData.sid = OtherTaskSid
    /\ task.sid = TaskSid
    /\ task.reservationSid = ReservationSid

\* C14: an _update whose payload carries another sid than the Task's is not
\* applied: every field of the update set keeps its value.
C14_ForeignPayloadNotApplied ==
    [][(UpdateStep /\ LET latestTaskData == IF op' = "_update" THEN args'.latestTaskData
                                                              ELSE args'.response
                       IN  latestTaskData.sid # task.sid)
        => \A f \in UpdateSet : task'[f] = task[f]]_vars

\* ------------------------------------------------------------ event dispatch
\* The step is a dispatch on either path.
DispatchStep == op' \in {"_emitEvent", "_emitEventForOutgoingTransfer"}

\* The names under which transfer events are known: on the wire and emitted.
TransferEventNames ==
    TransferEventKinds \cup {taskTransferEventTypes[k] : k \in TransferEventKinds}

\* C15: a transfer event (initiated, canceled, completed, failed, attempt
\* failed) is never handed to the generic _emitEvent and never emitted with
\* the Task as payload; it is handled by _emitEventForOutgoingTransfer only.
C15_TransferEventsNeverGeneric ==
    /\ op = "_emitEvent"
         => ~(IsString(args.eventType) /\ args.eventType.val \in TransferEventNames)
    /\ \A i \in DOMAIN emitted :
          emitted[i].name \in TransferEventNames
            => /\ op = "_emitEventForOutgoingTransfer"
               /\ emitted[i].payload # task

\* A transfer-failed event for the held transfer was handled on the transfer
\* path and emitted with the transfer as payload.
C15_Witness ==
    /\ op = "_emitEventForOutgoingTransfer"
    /\ args.eventType = Str("transfer-failed")
    /\ Len(emitted) = 1
    /\ emitted[1].name = "transferFailed"
    /\ emitted[1].payload = transfers.outgoing

\* C16 as stated: a dispatch whose eventType is not a non-empty string or
\* whose rawEventData is no object throws, emits nothing and changes nothing.
C16_NotNonEmptyStringThrows ==
    [][(DispatchStep /\ (~NonEmptyString(args'.eventType) \/ ~IsObject(args'.rawEventData)))
        => /\ outcome'.kind = "thrown"
           /\ emitted' = <<>>
           /\ task' = task
           /\ transfers' = transfers]_vars

\* C16 as amended: a dispatch, on either path, whose eventType is no string
\* or whose rawEventData is no object throws a TypeError, emits nothing and
\* changes nothing; the empty string is an event type like any other and on
\* the generic path it is emitted.
C16_WrongTypeDispatchThrows ==
    [][DispatchStep
        => IF ~IsString(args'.eventType) \/ ~IsObject(args'.rawEventData)
           THEN /\ outcome' = [kind |-> "thrown", error |-> TypeError]
                /\ emitted' = <<>>
                /\ calls' = <<>>
                /\ task' = task
                /\ transfers' = transfers
           ELSE /\ outcome' = [kind |-> "returned", error |-> NoError]
                /\ op' = "_emitEvent"
                     => emitted' = <<[emitter |-> "task", name |-> args'.eventType.val,
                                      payload |-> task]>>]_vars

\* A transfer event without payload was dispatched while an outgoing transfer
\* was held, and threw.
C16_Witness ==
    /\ op = "_emitEventForOutgoingTransfer"
    /\ args.eventType = Str(TRANSFER_INITIATED)
    /\ args.rawEventData = Undefined
    /\ outcome = [kind |-> "thrown", error |-> TypeError]
    /\ emitted = <<>>
    /\ transfers.outgoing # JsNull

\* ------------------------------------------------------------------ routes
\* C17: for a registered route whose template has N placeholders, getRoute
\* with exactly N arguments returns a path without a placeholder, and with
\* any other number of arguments, none included, it fails with the error for
\* a wrong number of arguments.
C17_ResolveChecksArgumentCount ==
    (op = "getRoute" /\ args.route \in RouteNames)
        => LET N == Placeholders(routes[args.route]) IN
           IF Len(args.args) = N
           THEN /\ outcome.kind = "returned"
                /\ Placeholders(returnedRoute.path) = 0
           ELSE /\ outcome.kind = "thrown"
                /\ returnedRoute.error = InvalidNumberOfArguments

\* --------------------------------------------------------------- responses
\* The step is the handling of a response by the then-handler of complete,
\* wrapUp, setAttributes, updateParticipant, kick or hold, and it succeeded.
UpdateResolvedStep ==
    /\ op' = "response"
    /\ args'.handler = "update"
    /\ outcome'.kind = "resolved"

\* C18 as stated: handling a successful command response emits a domain
\* event from the Task, after the reconciliation.
C18_ResponseEmitsEvent ==
    [][UpdateResolvedStep
        => /\ emitted' # <<>>
           /\ \A i \in DOMAIN emitted' : emitted'[i].payload = task']_vars

\* C18 as amended: handling a successful command response reconciles the
\* Task from the response and emits no event; events are emitted during a
\* dispatch of the event source only.
C18_ResponseEmitsNothing ==
    [][/\ UpdateResolvedStep
            => /\ emitted' = <<>>
               /\ \A f \in UpdateSet : task'[f] = TaskDescriptor(args'.response)[f]
       /\ emitted' # <<>> => DispatchStep]_vars

\* The response of a command was reconciled, which changed the Task, and no
\* event was emitted.
C18_Witness ==
    /\ op = "response"
    /\ args.handler = "update"
    /\ outcome.kind = "resolved"
    /\ args.response = TaskPayload(TaskSid, 2)
    /\ task.reason = "reason2"
    /\ emitted = <<>>

\* Every field of the update set comes from one and the same payload.
FieldsFromOnePayload(t) ==
    \E p \in ValidTaskPayloads : \A f \in UpdateSet : t[f] = TaskDescriptor(p)[f]

\* C19: with several commands awaiting their responses, each response is
\* reconciled in one step: in no state do fields of the update set come from
\* different payloads, a response that is applied leaves the fields of its
\* payload whatever was applied before it and whatever is still awaited, and
\* a response whose handler fails leaves the fields as they were.
C19_LastResponseWins ==
    [][/\ task' # task => FieldsFromOnePayload(task')
       /\ (op' = "response" /\ args'.handler = "update")
            => IF outcome'.kind = "resolved"
               THEN \A f \in UpdateSet : task'[f] = TaskDescriptor(args'.response)[f]
               ELSE task' = task
       /\ (op' = "response" /\ args'.handler = "transfer") => task' = task]_vars

\* Of two commands awaiting their responses, one response was reconciled,
\* which changed the Task; the other command is still awaiting its response.
C19_Witness ==
    /\ op = "response"
    /\ args.handler = "update"
    /\ outcome.kind = "resolved"
    /\ pending["update"] = 1
    /\ args.response = TaskPayload(TaskSid, 2)
    /\ task.status = "completed"
    /\ task.age = 20

\* ------------------------------------------------- identity of the outgoing
\* The sid of the outgoing transfer held in tr, "none" while the slot is
\* empty.
OutgoingSid(tr) == IF tr.outgoing = JsNull THEN "none" ELSE tr.outgoing.sid

\* C20: a dispatch of an outgoing-transfer event leaves an empty outgoing
\* slot empty and a held transfer under its sid; the outgoing sid changes
\* only when a transfer() response is handled or an _update that carries a
\* transfers sub-payload runs.
C20_EventsKeepOutgoingSid ==
    [][/\ op' = "_emitEventForOutgoingTransfer"
            => /\ transfers.outgoing = JsNull => transfers'.outgoing = JsNull
               /\ OutgoingSid(transfers') = OutgoingSid(transfers)
       /\ OutgoingSid(transfers') # OutgoingSid(transfers)
            => \/ TransferResolvedStep
               \/ op' = "_update" /\ ~NoSubPayload(args'.latestTransfersData)]_vars

\* A transfer-initiated event replaced the held transfer TR2 by the transfer
\* of its payload, again TR2, while an incoming transfer was held.
C20_Witness ==
    /\ op = "_emitEventForOutgoingTransfer"
    /\ args.eventType = Str(TRANSFER_INITIATED)
    /\ calls = <<"transfers._updateOutgoing", "emit">>
    /\ OutgoingSid(transfers) = "TR2"
    /\ args.rawEventData.sid = "TR2"
    /\ transfers.incoming # JsNull

\* ------------------------------------------------------------- no buffering
\* The well-typed transfer events that carry the sid s.
TransferEventsFor(s) ==
    {ev \in TransferEvents : IsString(ev[1]) /\ IsObject(ev[2]) /\ ev[2].sid = s}

\* C21: a transfer event that arrives while the outgoing transfer of its sid
\* is not held (its transfer() response has not been handled yet, or another
\* transfer is held) is dropped for good.  While a transfer() awaits its
\* response, for every response and every event of the response's sid: the
\* event first is dropped and the response handled after it emits nothing
\* and leaves the transfer exactly as the response describes it; the
\* response first makes the same event apply and be emitted.  And the
\* handling of a transfer() response never emits.
C21_EventsNeverBuffered ==
    /\ (op = "response" /\ args.handler = "transfer") => (emitted = <<>> /\ calls = <<>>)
    /\ pending["transfer"] > 0 =>
         \A response \in TransferPayloads :
            OutgoingSid(transfers) # response.sid =>
               LET a == TransferFromResponse(task, transfers, response) IN
               \A ev \in TransferEventsFor(response.sid) :
                  LET b == EmitEventForOutgoingTransfer(task, transfers, ev[1], ev[2])
                      ba == TransferFromResponse(b.task, b.transfers, response)
                      ab == EmitEventForOutgoingTransfer(a.task, a.transfers, ev[1], ev[2])
                  IN  /\ b.emitted = <<>>
                      /\ b.transfers = transfers
                      /\ ba.emitted = <<>>
                      /\ ba.transfers.outgoing = TransferDescriptor(response)
                      /\ ab.emitted # <<>>
                      /\ ab.transfers.outgoing.status = ev[2].transfer_status

\* A transfer-completed event for TR1 arrived while a transfer() was awaiting
\* its response and no outgoing transfer was held: it was dropped.
C21_Witness ==
    /\ op = "_emitEventForOutgoingTransfer"
    /\ args.eventType = Str("transfer-completed")
    /\ IsObject(args.rawEventData)
    /\ args.rawEventData.sid = "TR1"
    /\ pending["transfer"] > 0
    /\ transfers.outgoing = JsNull
    /\ emitted = <<>>
    /\ calls = <<>>

====
